---------------------------- MODULE Spec2Model ----------------------------
(***************************************************************************)
(* The client-side state-synchronisation layer of the contact book: the    *)
(* session store (authSlice + authOps), the HTTP adapter (api/axios) with  *)
(* the persisted credential in localStorage, and the contacts store        *)
(* (contactsSlice + contactsOps) with the form that feeds it.              *)
(*                                                                         *)
(* JavaScript null / undefined / a missing field are written Null; the     *)
(* empty string is written Empty. Both are falsy, as in the source.        *)
(* A user profile {name, email} is written as one string naming it.        *)
(***************************************************************************)
EXTENDS Integers, Sequences, FiniteSets, TLC

VARIABLES
    phase,          \* "boot" before main.jsx has run, "running" after, "mounted" once App's effect ran
    auth,           \* state.auth of the store (authSlice)
    contacts,       \* state.contacts of the store (contactsSlice)
    ui,             \* state.ui of the store (uiSlice)
    filters,        \* state.filters of the store (filtersSlice)
    localStorage,   \* the 'token' entry of localStorage, Null when absent
    remote,         \* the remote contacts service: its collection and its id counter
    net,            \* requests sent through api and not yet answered
    queued,         \* the actions a handler has produced and is about to dispatch, in order
    last,           \* the last action applied to the store, with the response behind it
    requests        \* how many contacts requests have been sent so far

vars == <<phase, auth, contacts, ui, filters, localStorage, remote, net, queued, last, requests>>

Null == "null"
Empty == ""

\* The most session requests in flight at once.
MaxInFlight == 3

\* The most contacts requests sent in one run of the page.
MaxRequests == 3

Tokens == {"t1", "t2"}
Profiles == {"Ali", "Bea"}

(***************************************************************************)
(* HTTP outcomes. status 0 stands for "no response received"               *)
(* (error.response is undefined).                                          *)
(***************************************************************************)
NoResp == [ok |-> TRUE, status |-> 0, data |-> Null, dataMessage |-> Empty, message |-> Empty]

Ok(status, data) ==
    [ok |-> TRUE, status |-> status, data |-> data, dataMessage |-> Empty, message |-> Empty]

HttpError(status, dataMessage) ==
    [ok |-> FALSE, status |-> status, data |-> Null, dataMessage |-> dataMessage,
     message |-> IF status = 0 THEN "Network Error"
                 ELSE "Request failed with status code " \o ToString(status)]

Errors ==
    { HttpError(400, "Bad request"),
      HttpError(401, Empty),
      HttpError(409, "User already exists"),
      HttpError(500, Empty),
      HttpError(0, Empty) }

\* a || b of JavaScript on strings
Or(a, b) == IF a # Null /\ a # Empty THEN a ELSE b

(***************************************************************************)
(* authSlice                                                               *)
(***************************************************************************)
initialState ==
    [user |-> Null, token |-> Null, isLoggedIn |-> FALSE, isRefreshing |-> FALSE,
     status |-> "idle", error |-> Null]

\* An action as RTK builds it; meta.arg is the argument the thunk was called with.
Action(type, payload, arg) == [type |-> type, payload |-> payload, meta |-> [arg |-> arg]]

\* A lifecycle action of a thunk: meta also carries the id of the call that produced it.
ThunkAction(type, payload, arg, requestId) ==
    [type |-> type, payload |-> payload, meta |-> [arg |-> arg, requestId |-> requestId]]

setCredentials(state, payload) ==
    LET s1 == IF payload.user # Null THEN [state EXCEPT !.user = payload.user] ELSE state
    IN  IF payload.token # Null
        THEN [s1 EXCEPT !.token = payload.token, !.isLoggedIn = TRUE]
        ELSE s1

clearCredentials(state) ==
    [state EXCEPT !.user = Null, !.token = Null, !.isLoggedIn = FALSE, !.error = Null]

registerPending(state) == [state EXCEPT !.status = "loading", !.error = Null]

registerFulfilled(state, action) ==
    [state EXCEPT !.status = "succeeded", !.user = action.payload.user,
                  !.token = action.payload.token, !.isLoggedIn = TRUE, !.error = Null]

registerRejected(state, action) ==
    [state EXCEPT !.status = "failed", !.error = Or(action.payload, "Registration failed"),
                  !.user = Null, !.token = Null, !.isLoggedIn = FALSE]

loginPending(state) == [state EXCEPT !.status = "loading", !.error = Null]

loginFulfilled(state, action) ==
    [state EXCEPT !.status = "succeeded", !.user = action.payload.user,
                  !.token = action.payload.token, !.isLoggedIn = TRUE, !.error = Null]

loginRejected(state, action) ==
    [state EXCEPT !.status = "failed", !.error = Or(action.payload, "Login failed"),
                  !.user = Null, !.token = Null, !.isLoggedIn = FALSE]

logoutPending(state) == [state EXCEPT !.status = "loading"]

\* Mutant: a logout that settles when no logout is shown as loading is ignored.
logoutFulfilled_OnlyIfLoading(state) ==
    IF state.status = "loading"
    THEN [state EXCEPT !.status = "idle", !.user = Null, !.token = Null,
                       !.isLoggedIn = FALSE, !.error = Null]
    ELSE state

logoutFulfilled(state) ==
    [state EXCEPT !.status = "idle", !.user = Null, !.token = Null,
                  !.isLoggedIn = FALSE, !.error = Null]

logoutRejected(state) ==
    [state EXCEPT !.status = "idle", !.user = Null, !.token = Null,
                  !.isLoggedIn = FALSE, !.error = Null]

\* Mutant: the pending case forgets to raise isRefreshing.
refreshUserPending_NoFlag(state) == [state EXCEPT !.error = Null]

refreshUserPending(state) == [state EXCEPT !.isRefreshing = TRUE, !.error = Null]

refreshUserFulfilled(state, action) ==
    [state EXCEPT !.isRefreshing = FALSE, !.user = action.payload,
                  !.isLoggedIn = TRUE, !.status = "succeeded"]

\* Mutant: the rejected case does not lower isRefreshing.
refreshUserRejected_StillRefreshing(state) ==
    [state EXCEPT !.user = Null, !.token = Null, !.isLoggedIn = FALSE,
                  !.error = "Session expired"]

refreshUserRejected(state) ==
    [state EXCEPT !.isRefreshing = FALSE, !.user = Null, !.token = Null,
                  !.isLoggedIn = FALSE, !.error = "Session expired"]

authReducer(state, action) ==
    CASE action.type = "auth/setCredentials"    -> setCredentials(state, action.payload)
      [] action.type = "auth/clearCredentials"  -> clearCredentials(state)
      [] action.type = "auth/register/pending"   -> registerPending(state)
      [] action.type = "auth/register/fulfilled" -> registerFulfilled(state, action)
      [] action.type = "auth/register/rejected"  -> registerRejected(state, action)
      [] action.type = "auth/login/pending"      -> loginPending(state)
      [] action.type = "auth/login/fulfilled"    -> loginFulfilled(state, action)
      [] action.type = "auth/login/rejected"     -> loginRejected(state, action)
      [] action.type = "auth/logout/pending"     -> logoutPending(state)
      [] action.type = "auth/logout/fulfilled"   -> logoutFulfilled(state)
      [] action.type = "auth/logout/rejected"    -> logoutRejected(state)
      [] action.type = "auth/refresh/pending"    -> refreshUserPending(state)
      [] action.type = "auth/refresh/fulfilled"  -> refreshUserFulfilled(state, action)
      [] action.type = "auth/refresh/rejected"   -> refreshUserRejected(state)
      [] OTHER -> state

(***************************************************************************)
(* api/axios: the two interceptors                                         *)
(***************************************************************************)
\* Mutant: the token is taken from the session state of the store.
requestInterceptor_FromState(storage) ==
    IF auth.token # Null THEN "Bearer " \o auth.token ELSE Null

\* The Authorization header the request interceptor attaches (Null: none).
requestInterceptor(storage) == IF storage # Null THEN "Bearer " \o storage ELSE Null

\* Mutant: a 401 does not remove the token.
responseInterceptor_NoClear(resp, storage) == storage

\* localStorage after the response interceptor has seen resp.
responseInterceptor(resp, storage) ==
    IF ~resp.ok /\ resp.status = 401 THEN Null ELSE storage

(***************************************************************************)
(* authOps: what each payload creator does once its request is answered.   *)
(* The result is the new localStorage and the action RTK dispatches.       *)
(***************************************************************************)
Settled(storage, type, payload) == [storage |-> storage, type |-> type, payload |-> payload]

\* Mutant: the status code is never put in front of the message.
register_NoPrefix(resp, storage) ==
    IF resp.ok
    THEN Settled(resp.data.token, "auth/register/fulfilled",
                 [user |-> resp.data.user, token |-> resp.data.token])
    ELSE Settled(storage, "auth/register/rejected",
                 Or(resp.dataMessage, Or(resp.message, "Registration failed")))

register(resp, storage) ==
    IF resp.ok
    THEN Settled(resp.data.token, "auth/register/fulfilled",
                 [user |-> resp.data.user, token |-> resp.data.token])
    ELSE LET statusCode == resp.status
             message == Or(resp.dataMessage, Or(resp.message, "Registration failed"))
             errorMessage == IF statusCode = 400 \/ statusCode = 409
                             THEN ToString(statusCode) \o ":" \o message
                             ELSE message
         IN  Settled(storage, "auth/register/rejected", errorMessage)

\* Mutant: the token is returned but not written to localStorage.
login_NoPersist(resp, storage) ==
    IF resp.ok
    THEN Settled(storage, "auth/login/fulfilled",
                 [user |-> resp.data.user, token |-> resp.data.token])
    ELSE Settled(storage, "auth/login/rejected",
                 Or(resp.dataMessage, Or(resp.message, "Login failed")))

\* Mutant: the message is taken from the response body only, without the fallbacks.
login_RawMessage(resp, storage) ==
    IF resp.ok
    THEN Settled(resp.data.token, "auth/login/fulfilled",
                 [user |-> resp.data.user, token |-> resp.data.token])
    ELSE Settled(storage, "auth/login/rejected", resp.dataMessage)

login(resp, storage) ==
    IF resp.ok
    THEN Settled(resp.data.token, "auth/login/fulfilled",
                 [user |-> resp.data.user, token |-> resp.data.token])
    ELSE LET message == Or(resp.dataMessage, Or(resp.message, "Login failed"))
         IN  Settled(storage, "auth/login/rejected", message)

\* Mutant: no catch and no finally, so a failed call rejects and keeps the token.
logout_NoFinally(resp, storage) ==
    IF resp.ok
    THEN Settled(Null, "auth/logout/fulfilled", Null)
    ELSE Settled(storage, "auth/logout/rejected", resp.message)

\* try / catch / finally: the token is removed on both paths, the thunk returns null.
logout(resp, storage) == Settled(Null, "auth/logout/fulfilled", Null)

\* Mutant: the catch block does not remove the token.
refreshUser_KeepsToken(resp, storage) ==
    IF resp.ok
    THEN Settled(storage, "auth/refresh/fulfilled", resp.data)
    ELSE Settled(storage, "auth/refresh/rejected",
                 Or(resp.dataMessage, Or(resp.message, "Session expired")))

\* The part of refreshUser after the await.
refreshUser(resp, storage) ==
    IF resp.ok
    THEN Settled(storage, "auth/refresh/fulfilled", resp.data)
    ELSE LET message == Or(resp.dataMessage, Or(resp.message, "Session expired"))
         IN  Settled(Null, "auth/refresh/rejected", message)

\* What the remote may answer to each session call (the remote is an opaque collaborator).
Responses(thunk) ==
    CASE thunk \in {"auth/register", "auth/login"} ->
             {Ok(IF thunk = "auth/register" THEN 201 ELSE 200, [user |-> u, token |-> t]) :
                 u \in Profiles, t \in Tokens} \cup Errors
      [] thunk = "auth/logout"  -> {Ok(204, Null)} \cup Errors
      [] thunk = "auth/refresh" -> {Ok(200, u) : u \in Profiles} \cup Errors

(***************************************************************************)
(* Text. The text fields of a contact and of a form are sequences of       *)
(* one-character strings, so that trim() is computed, not assumed.         *)
(***************************************************************************)
RECURSIVE trimStart(_)
trimStart(s) == IF s # <<>> /\ Head(s) = " " THEN trimStart(Tail(s)) ELSE s

RECURSIVE trimEnd(_)
trimEnd(s) == IF s # <<>> /\ s[Len(s)] = " " THEN trimEnd(SubSeq(s, 1, Len(s) - 1)) ELSE s

\* String.prototype.trim
trim(s) == trimEnd(trimStart(s))

(***************************************************************************)
(* contactsSlice                                                           *)
(***************************************************************************)
contactsInitialState == [items |-> <<>>, status |-> "idle", error |-> Null]

\* Array.prototype.findIndex on the id; -1 when there is none (indices from 1 here).
findIndex(items, id) ==
    IF \E i \in 1..Len(items) : items[i].id = id
    THEN CHOOSE i \in 1..Len(items) :
             items[i].id = id /\ \A j \in 1..(i - 1) : items[j].id # id
    ELSE -1

\* Mutant: the pending case leaves the status as it was.
fetchContactsPending_NoStatus(state) == [state EXCEPT !.error = Null]

fetchContactsPending(state) == [state EXCEPT !.status = "loading", !.error = Null]

\* Mutant: the response is merged into the collection instead of replacing it.
fetchContactsFulfilled_Merge(state, action) ==
    [state EXCEPT !.status = "succeeded",
                  !.items = SelectSeq(state.items,
                                      LAMBDA c : \A i \in 1..Len(action.payload) :
                                                     action.payload[i].id # c.id)
                              \o action.payload]

fetchContactsFulfilled(state, action) ==
    [state EXCEPT !.status = "succeeded", !.items = action.payload]

\* action.error.message of an action built by rejectWithValue
RejectedMessage == "Rejected"

fetchContactsRejected(state, action) ==
    [state EXCEPT !.status = "failed", !.error = Or(action.payload, RejectedMessage)]

addContactPending(state) == [state EXCEPT !.status = "loading", !.error = Null]

\* Mutant: push instead of unshift.
addContactFulfilled_Push(state, action) ==
    [state EXCEPT !.status = "succeeded", !.items = Append(state.items, action.payload)]

addContactFulfilled(state, action) ==
    [state EXCEPT !.status = "succeeded", !.items = <<action.payload>> \o state.items]

\* Mutant: a failed add empties the collection.
addContactRejected_Clears(state, action) ==
    [state EXCEPT !.status = "failed", !.error = Or(action.payload, RejectedMessage),
                  !.items = <<>>]

addContactRejected(state, action) ==
    [state EXCEPT !.status = "failed", !.error = Or(action.payload, RejectedMessage)]

updateContactPending(state) == [state EXCEPT !.status = "loading", !.error = Null]

\* Mutant: when no element has the id, the returned contact is added to the collection.
updateContactFulfilled_Upsert(state, action) ==
    LET index == findIndex(state.items, action.meta.arg.id)
    IN  IF index # -1
        THEN [state EXCEPT !.status = "succeeded", !.items[index] = action.payload]
        ELSE [state EXCEPT !.status = "succeeded", !.items = Append(@, action.payload)]

updateContactFulfilled(state, action) ==
    LET index == findIndex(state.items, action.meta.arg.id)
    IN  IF index # -1
        THEN [state EXCEPT !.status = "succeeded", !.items[index] = action.payload]
        ELSE [state EXCEPT !.status = "succeeded"]

\* Mutant: the rejection message is not recorded.
updateContactRejected_NoError(state, action) == [state EXCEPT !.status = "failed"]

updateContactRejected(state, action) ==
    [state EXCEPT !.status = "failed", !.error = Or(action.payload, RejectedMessage)]

deleteContactPending(state) == [state EXCEPT !.status = "loading", !.error = Null]

\* Mutant: splice(findIndex(id), 1) removes only the first element with the id.
deleteContactFulfilled_Splice(state, action) ==
    LET index == findIndex(state.items, action.payload)
    IN  IF index # -1
        THEN [state EXCEPT !.status = "succeeded",
                           !.items = SubSeq(@, 1, index - 1) \o SubSeq(@, index + 1, Len(@))]
        ELSE [state EXCEPT !.status = "succeeded"]

deleteContactFulfilled(state, action) ==
    [state EXCEPT !.status = "succeeded",
                  !.items = SelectSeq(state.items, LAMBDA contact : contact.id # action.payload)]

deleteContactRejected(state, action) ==
    [state EXCEPT !.status = "failed", !.error = Or(action.payload, RejectedMessage)]

contactsReducer(state, action) ==
    CASE action.type = "contacts/fetchAll/pending"        -> fetchContactsPending(state)
      [] action.type = "contacts/fetchAll/fulfilled"      -> fetchContactsFulfilled(state, action)
      [] action.type = "contacts/fetchAll/rejected"       -> fetchContactsRejected(state, action)
      [] action.type = "contacts/addContact/pending"      -> addContactPending(state)
      [] action.type = "contacts/addContact/fulfilled"    -> addContactFulfilled(state, action)
      [] action.type = "contacts/addContact/rejected"     -> addContactRejected(state, action)
      [] action.type = "contacts/updateContact/pending"   -> updateContactPending(state)
      [] action.type = "contacts/updateContact/fulfilled" -> updateContactFulfilled(state, action)
      [] action.type = "contacts/updateContact/rejected"  -> updateContactRejected(state, action)
      [] action.type = "contacts/deleteContact/pending"   -> deleteContactPending(state)
      [] action.type = "contacts/deleteContact/fulfilled" -> deleteContactFulfilled(state, action)
      [] action.type = "contacts/deleteContact/rejected"  -> deleteContactRejected(state, action)
      [] OTHER -> state

(***************************************************************************)
(* uiSlice. editingContact is <<>> for null and <<c>> for the contact c.   *)
(***************************************************************************)
uiInitialState == [editingContact |-> <<>>]

setEditingContact(state, action) == [state EXCEPT !.editingContact = <<action.payload>>]

clearEditingContact(state) == [state EXCEPT !.editingContact = <<>>]

uiReducer(state, action) ==
    CASE action.type = "ui/setEditingContact"   -> setEditingContact(state, action)
      [] action.type = "ui/clearEditingContact" -> clearEditingContact(state)
      [] OTHER -> state

(***************************************************************************)
(* filtersSlice. The search text is a sequence of characters.              *)
(***************************************************************************)
filtersInitialState == [search |-> <<>>, filter |-> "all"]

setSearch(state, action) == [state EXCEPT !.search = action.payload]

setFilter(state, action) == [state EXCEPT !.filter = action.payload]

filtersReducer(state, action) ==
    CASE action.type = "filters/setSearch" -> setSearch(state, action)
      [] action.type = "filters/setFilter" -> setFilter(state, action)
      [] OTHER -> state

(***************************************************************************)
(* selectFilteredContacts                                                  *)
(***************************************************************************)
\* String.prototype.toLowerCase on one character of the alphabet used here.
lower(c) ==
    CASE c = "A" -> "a"
      [] c = "B" -> "b"
      [] c = "N" -> "n"
      [] OTHER -> c

toLowerCase(s) == [i \in 1..Len(s) |-> lower(s[i])]

\* String.prototype.includes
includes(s, t) == \E i \in 0..(Len(s) - Len(t)) : SubSeq(s, i + 1, i + Len(t)) = t

\* ${contact.field} in a template literal: a missing field prints as "undefined".
interpolate(contact, field) ==
    IF field \in DOMAIN contact THEN contact[field]
    ELSE <<"u", "n", "d", "e", "f", "i", "n", "e", "d">>

\* contact.field as a condition: a missing field and '' are both falsy.
truthy(contact, field) == field \in DOMAIN contact /\ contact[field] # <<>>

\* Mutant: the contact's text is not lower-cased before the comparison.
selectFilteredContacts_CaseSensitive(items, search, filter) ==
    LET normalizedSearch == toLowerCase(trim(search))
        matchesSearch(contact) ==
            IF normalizedSearch # <<>>
            THEN includes(interpolate(contact, "name") \o <<" ">>
                              \o interpolate(contact, "phone") \o <<" ">>
                              \o (IF truthy(contact, "email") THEN contact.email ELSE <<>>),
                          normalizedSearch)
            ELSE TRUE
        matchesFilter(contact) ==
            \/ filter = "all"
            \/ filter = "hasEmail" /\ truthy(contact, "email")
            \/ filter = "hasPhone" /\ truthy(contact, "phone")
    IN  SelectSeq(items, LAMBDA contact : matchesSearch(contact) /\ matchesFilter(contact))

selectFilteredContacts(items, search, filter) ==
    LET normalizedSearch == toLowerCase(trim(search))
        matchesSearch(contact) ==
            IF normalizedSearch # <<>>
            THEN includes(toLowerCase(interpolate(contact, "name") \o <<" ">>
                                          \o interpolate(contact, "phone") \o <<" ">>
                                          \o (IF truthy(contact, "email") THEN contact.email
                                              ELSE <<>>)),
                          normalizedSearch)
            ELSE TRUE
        matchesFilter(contact) ==
            \/ filter = "all"
            \/ filter = "hasEmail" /\ truthy(contact, "email")
            \/ filter = "hasPhone" /\ truthy(contact, "phone")
    IN  SelectSeq(items, LAMBDA contact : matchesSearch(contact) /\ matchesFilter(contact))

(***************************************************************************)
(* contactsOps: the payload creators, after the await                      *)
(***************************************************************************)
fetchContacts(resp, storage) ==
    IF resp.ok
    THEN Settled(storage, "contacts/fetchAll/fulfilled", resp.data)
    ELSE Settled(storage, "contacts/fetchAll/rejected",
                 Or(resp.message, "Failed to fetch contacts"))

addContact(resp, storage) ==
    IF resp.ok
    THEN Settled(storage, "contacts/addContact/fulfilled", resp.data)
    ELSE Settled(storage, "contacts/addContact/rejected",
                 Or(resp.message, "Failed to add contact"))

updateContact(resp, storage) ==
    IF resp.ok
    THEN Settled(storage, "contacts/updateContact/fulfilled", resp.data)
    ELSE Settled(storage, "contacts/updateContact/rejected",
                 Or(resp.message, "Failed to update contact"))

deleteContact(id, resp, storage) ==
    IF resp.ok
    THEN Settled(storage, "contacts/deleteContact/fulfilled", id)
    ELSE Settled(storage, "contacts/deleteContact/rejected",
                 Or(resp.message, "Failed to delete contact"))

\* What the caller of the thunk dispatches once the thunk has settled:
\* EditModal.handleSubmit closes the modal after its await.
afterSettled(thunk, storage) ==
    IF thunk = "contacts/updateContact"
    THEN <<[action |-> Action("ui/clearEditingContact", Null, Null), resp |-> NoResp,
            storageBefore |-> storage]>>
    ELSE <<>>

(***************************************************************************)
(* The store and the requests in flight                                    *)
(***************************************************************************)
SessionThunks == {"auth/register", "auth/login", "auth/logout", "auth/refresh"}

payloadCreator(thunk, arg, resp, storage) ==
    CASE thunk = "auth/register" -> register(resp, storage)
      [] thunk = "auth/login"    -> login(resp, storage)
      [] thunk = "auth/logout"   -> logout(resp, storage)
      [] thunk = "auth/refresh"  -> refreshUser(resp, storage)
      [] thunk = "contacts/fetchAll"      -> fetchContacts(resp, storage)
      [] thunk = "contacts/addContact"    -> addContact(resp, storage)
      [] thunk = "contacts/updateContact" -> updateContact(resp, storage)
      [] thunk = "contacts/deleteContact" -> deleteContact(arg, resp, storage)

\* A request as it leaves: resp is filled in once the contacts service has handled it.
\* requestId numbers the contacts requests in the order they are sent.
Request(thunk, arg, storage) ==
    [thunk |-> thunk, arg |-> arg, requestId |-> requests + 1,
     authorization |-> requestInterceptor(storage), handled |-> FALSE, resp |-> NoResp]

Remove(s, i) == SubSeq(s, 1, i - 1) \o SubSeq(s, i + 1, Len(s))

Event(action, resp, storageBefore) ==
    [action |-> action, resp |-> resp, storageBefore |-> storageBefore]

\* One action applied to the store: every slice reducer sees it.
Reduce(event) ==
    /\ auth' = authReducer(auth, event.action)
    /\ contacts' = contactsReducer(contacts, event.action)
    /\ ui' = uiReducer(ui, event.action)
    /\ filters' = filtersReducer(filters, event.action)
    /\ last' = event

\* dispatch(thunk(arg)): the pending action is applied and the request leaves.
Send(thunk, arg) ==
    /\ Reduce(Event(ThunkAction(thunk \o "/pending", Null, arg, requests + 1), NoResp, localStorage))
    /\ net' = Append(net, Request(thunk, arg, localStorage))

\* dispatch of a session thunk, while fewer than MaxInFlight are in flight.
SendSession(thunk) ==
    /\ Len(net) < MaxInFlight
    /\ Send(thunk, Null)

\* dispatch of a contacts thunk, counted.
SendContacts(thunk, arg) ==
    /\ requests < MaxRequests
    /\ requests' = requests + 1
    /\ Send(thunk, arg)

\* A request is answered: the response interceptor runs, then the rest of the
\* payload creator, which returns the action to dispatch.
Receive(i, resp) ==
    /\ queued = <<>>
    /\ net' = Remove(net, i)
    /\ LET r == net[i]
           s == payloadCreator(r.thunk, r.arg, resp, responseInterceptor(resp, localStorage))
       IN  /\ localStorage' = s.storage
           /\ queued' = <<Event(ThunkAction(s.type, s.payload, r.arg, r.requestId), resp, localStorage)>>
                            \o afterSettled(r.thunk, s.storage)
    /\ UNCHANGED <<phase, auth, contacts, ui, filters, remote, last, requests>>

\* The queued actions are dispatched in the same task: nothing runs in between.
Dispatch ==
    /\ queued # <<>>
    /\ Reduce(Head(queued))
    /\ queued' = Tail(queued)
    /\ UNCHANGED <<phase, localStorage, remote, net, requests>>

(***************************************************************************)
(* Session operations                                                      *)
(***************************************************************************)
SessionInit ==
    /\ phase = "boot"
    /\ auth = initialState
    /\ contacts = contactsInitialState
    /\ ui = uiInitialState
    /\ filters = filtersInitialState
    /\ localStorage \in {Null} \cup Tokens
    /\ remote = [items |-> <<>>, nextId |-> 1]
    /\ net = <<>>
    /\ queued = <<>>
    /\ last = Event(Action("@@INIT", Null, Null), NoResp, Null)
    /\ requests = 0

\* main.jsx: the token persistence block, run once when the page loads.
\* refreshUser() reads localStorage itself before it calls the API.
Main ==
    /\ phase = "boot"
    /\ phase' = "running"
    /\ LET token == localStorage
       IN  IF token # Null
           THEN LET loaded == authReducer(auth, Action("auth/setCredentials",
                                                       [user |-> Null, token |-> token], Null))
                    pending == ThunkAction("auth/refresh/pending", Null, Null, requests + 1)
                IN  /\ auth' = authReducer(loaded, pending)
                    /\ last' = Event(pending, NoResp, localStorage)
                    /\ IF localStorage = Null
                       THEN /\ queued' = <<Event(ThunkAction("auth/refresh/rejected", "Token not found", Null, requests + 1),
                                                 NoResp, localStorage)>>
                            /\ net' = net
                       ELSE /\ net' = Append(net, Request("auth/refresh", Null, localStorage))
                            /\ queued' = queued
           ELSE UNCHANGED <<auth, net, last, queued>>
    /\ UNCHANGED <<contacts, ui, filters, localStorage, remote, requests>>

\* RegisterForm.handleSubmit, reachable under PublicRoute with the form enabled.
SubmitRegister ==
    /\ phase # "boot" /\ queued = <<>>
    /\ ~auth.isLoggedIn
    /\ auth.status # "loading"
    /\ SendSession("auth/register")
    /\ UNCHANGED <<phase, localStorage, remote, queued, requests>>

\* LoginForm.handleSubmit, reachable under PublicRoute with the form enabled.
SubmitLogin ==
    /\ phase # "boot" /\ queued = <<>>
    /\ ~auth.isLoggedIn
    /\ auth.status # "loading"
    /\ SendSession("auth/login")
    /\ UNCHANGED <<phase, localStorage, remote, queued, requests>>

\* UserMenu.handleLogout: the menu is rendered while isLoggedIn.
ClickLogout ==
    /\ phase # "boot" /\ queued = <<>>
    /\ auth.isLoggedIn
    /\ SendSession("auth/logout")
    /\ UNCHANGED <<phase, localStorage, remote, queued, requests>>

\* The remote answers a session request.
Answer ==
    \E i \in 1..Len(net) :
        /\ net[i].thunk \in SessionThunks
        /\ \E resp \in Responses(net[i].thunk) : Receive(i, resp)

SessionNext ==
    \/ Main
    \/ SubmitRegister
    \/ SubmitLogin
    \/ ClickLogout
    \/ Answer
    \/ Dispatch

SessionSpec == SessionInit /\ [][SessionNext]_vars

(***************************************************************************)
(* Routing                                                                 *)
(***************************************************************************)
\* What PrivateRoute renders for a session state.
PrivateRoute(state) ==
    IF state.isRefreshing THEN "Loading..."
    ELSE IF ~state.isLoggedIn THEN "Navigate to /login"
    ELSE "children"

\* The startup refresh is answered.
AnswerRefresh ==
    \E i \in 1..Len(net) :
        /\ net[i].thunk = "auth/refresh"
        /\ \E resp \in Responses("auth/refresh") : Receive(i, resp)

\* Every request eventually receives a response or a network error, however many
\* other answers come first, and a settled action is dispatched in the same task.
SessionFairness == SF_vars(AnswerRefresh) /\ WF_vars(Dispatch)

SessionLiveSpec == SessionInit /\ [][SessionNext]_vars /\ SessionFairness

(***************************************************************************)
(* The session store with its exported clearCredentials action dispatched  *)
(***************************************************************************)
\* dispatch(clearCredentials())
DispatchClearCredentials ==
    /\ phase # "boot" /\ queued = <<>>
    /\ Reduce(Event(Action("auth/clearCredentials", Null, Null), NoResp, localStorage))
    /\ UNCHANGED <<phase, localStorage, remote, net, queued, requests>>

ClearNext ==
    \/ Main
    \/ net = <<>> /\ SubmitLogin
    \/ Answer
    \/ Dispatch
    \/ DispatchClearCredentials

ClearSpec == SessionInit /\ [][ClearNext]_vars

(***************************************************************************)
(* The remote contacts service (the contract the thunks call)              *)
(***************************************************************************)
ContactsThunks ==
    {"contacts/fetchAll", "contacts/addContact", "contacts/updateContact",
     "contacts/deleteContact"}

Ann == [id |-> 1, name |-> <<"A", "n", "n">>, phone |-> <<"5">>, email |-> <<>>, avatar |-> <<>>]

HasId(items, id) == \E i \in 1..Len(items) : items[i].id = id

\* The service's state and its answer after it has carried out request r.
Serve(r) ==
    CASE r.thunk = "contacts/fetchAll" ->
             [remote |-> remote, resp |-> Ok(200, remote.items)]
      [] r.thunk = "contacts/addContact" ->
             LET created == [id |-> remote.nextId, name |-> r.arg.name, phone |-> r.arg.phone,
                             email |-> r.arg.email, avatar |-> r.arg.avatar]
             IN  [remote |-> [items |-> Append(remote.items, created),
                              nextId |-> remote.nextId + 1],
                  resp |-> Ok(201, created)]
      [] r.thunk = "contacts/updateContact" ->
             IF HasId(remote.items, r.arg.id)
             THEN LET updated == [id |-> r.arg.id, name |-> r.arg.updates.name,
                                  phone |-> r.arg.updates.phone, email |-> r.arg.updates.email,
                                  avatar |-> r.arg.updates.avatar]
                      i == findIndex(remote.items, r.arg.id)
                  IN  [remote |-> [remote EXCEPT !.items[i] = updated], resp |-> Ok(200, updated)]
             ELSE [remote |-> remote, resp |-> HttpError(404, Empty)]
      [] r.thunk = "contacts/deleteContact" ->
             IF HasId(remote.items, r.arg)
             THEN [remote |-> [remote EXCEPT !.items = SelectSeq(@, LAMBDA c : c.id # r.arg)],
                   resp |-> Ok(204, Null)]
             ELSE [remote |-> remote, resp |-> HttpError(404, Empty)]

\* Failures any request can meet: the credential is refused, or no response arrives.
ContactsErrors == {HttpError(401, Empty), HttpError(0, Empty)}

\* The service carries out request i, or the request fails instead.
Handle ==
    \E i \in 1..Len(net) :
        /\ queued = <<>>
        /\ net[i].thunk \in ContactsThunks
        /\ ~net[i].handled
        /\ \/ /\ remote' = Serve(net[i]).remote
              /\ net' = [net EXCEPT ![i].handled = TRUE, ![i].resp = Serve(net[i]).resp]
           \/ \E e \in ContactsErrors :
                 /\ remote' = remote
                 /\ net' = [net EXCEPT ![i].handled = TRUE, ![i].resp = e]
        /\ UNCHANGED <<phase, auth, contacts, ui, filters, localStorage, queued, last, requests>>

\* The answer to request i reaches the client; answers arrive in any order.
Deliver ==
    \E i \in 1..Len(net) :
        /\ net[i].thunk \in ContactsThunks
        /\ net[i].handled
        /\ Receive(i, net[i].resp)

(***************************************************************************)
(* Contacts operations                                                     *)
(***************************************************************************)
\* What the user can have typed into a text field.
RawNames == {<<>>, <<" ">>, <<" ", "B", "o">>}
RawPhones == {<<>>, <<"2", " ">>}
RawEdits == {<<" ">>, <<"C", "y", " ">>}

ContactsInit ==
    /\ phase = "running"
    /\ auth = [user |-> "Ali", token |-> "t1", isLoggedIn |-> TRUE, isRefreshing |-> FALSE,
               status |-> "succeeded", error |-> Null]
    /\ contacts = contactsInitialState
    /\ ui = uiInitialState
    /\ filters = filtersInitialState
    /\ localStorage = "t1"
    /\ remote \in {[items |-> <<>>, nextId |-> 1], [items |-> <<Ann>>, nextId |-> 2]}
    /\ net = <<>>
    /\ queued = <<>>
    /\ last = Event(Action("@@INIT", Null, Null), NoResp, Null)
    /\ requests = 0

\* App's effect: the list is fetched while status is idle, that is once, on mount.
AppEffect ==
    /\ phase = "running" /\ queued = <<>>
    /\ contacts.status = "idle"
    /\ SendContacts("contacts/fetchAll", Null)
    /\ phase' = "mounted"
    /\ UNCHANGED <<localStorage, remote, queued>>

\* Mutant: the form submits whatever it holds, without the emptiness check.
ContactFormSubmit_NoValidation(name, phone) ==
    /\ phase = "mounted" /\ queued = <<>>
    /\ SendContacts("contacts/addContact",
                    [name |-> trim(name), phone |-> trim(phone),
                     email |-> trim(<<>>), avatar |-> trim(<<>>)])
    /\ UNCHANGED <<phase, localStorage, remote, queued>>

\* ContactForm.handleSubmit with App.handleSubmit as its onSubmit.
ContactFormSubmit(name, phone) ==
    /\ phase = "mounted" /\ queued = <<>>
    /\ LET payload == [name |-> trim(name), phone |-> trim(phone),
                       email |-> trim(<<>>), avatar |-> trim(<<>>)]
       IN  IF payload.name = <<>> \/ payload.phone = <<>>
           THEN UNCHANGED <<auth, contacts, ui, filters, net, last, requests>>
           ELSE SendContacts("contacts/addContact", payload)
    /\ UNCHANGED <<phase, localStorage, remote, queued>>

\* ContactList: the Edit button of a listed contact.
ClickEdit(i) ==
    /\ phase = "mounted" /\ queued = <<>>
    /\ Reduce(Event(Action("ui/setEditingContact", contacts.items[i], Null), NoResp, localStorage))
    /\ UNCHANGED <<phase, localStorage, remote, net, queued, requests>>

\* ContactList: the Delete button of a listed contact.
ClickDelete(i) ==
    /\ phase = "mounted" /\ queued = <<>>
    /\ SendContacts("contacts/deleteContact", contacts.items[i].id)
    /\ UNCHANGED <<phase, localStorage, remote, queued>>

\* EditModal.handleSubmit: the form holds the contact being edited, with the name retyped.
EditModalSubmit(name) ==
    /\ phase = "mounted" /\ queued = <<>>
    /\ ui.editingContact # <<>>
    /\ LET editingContact == ui.editingContact[1]
           payload == [name |-> trim(name), phone |-> trim(editingContact.phone),
                       email |-> trim(editingContact.email),
                       avatar |-> trim(editingContact.avatar)]
       IN  IF payload.name = <<>> \/ payload.phone = <<>>
           THEN UNCHANGED <<auth, contacts, ui, filters, net, last, requests>>
           ELSE SendContacts("contacts/updateContact", [id |-> editingContact.id, updates |-> payload])
    /\ UNCHANGED <<phase, localStorage, remote, queued>>

\* EditModal.handleClose
EditModalClose ==
    /\ phase = "mounted" /\ queued = <<>>
    /\ ui.editingContact # <<>>
    /\ Reduce(Event(Action("ui/clearEditingContact", Null, Null), NoResp, localStorage))
    /\ UNCHANGED <<phase, localStorage, remote, net, queued, requests>>

ContactsNext ==
    \/ AppEffect
    \/ \E name \in RawNames, phone \in RawPhones : ContactFormSubmit(name, phone)
    \/ \E i \in 1..Len(contacts.items) : ClickEdit(i)
    \/ \E i \in 1..Len(contacts.items) : ClickDelete(i)
    \/ \E name \in RawEdits : EditModalSubmit(name)
    \/ EditModalClose
    \/ Handle
    \/ Deliver
    \/ Dispatch

ContactsSpec == ContactsInit /\ [][ContactsNext]_vars

(***************************************************************************)
(* The whole page: a signed-in user on the contacts page who can log out   *)
(* and log in again                                                        *)
(***************************************************************************)
\* The contacts page is rendered under PrivateRoute.
OnContactsPage == PrivateRoute(auth) = "children"

\* The user logs out and in again only while nothing is pending.
AppNext ==
    \/ OnContactsPage /\ AppEffect
    \/ Handle
    \/ Deliver
    \/ net = <<>> /\ ClickLogout
    \/ net = <<>> /\ SubmitLogin
    \/ Answer
    \/ Dispatch

AppSpec == ContactsInit /\ [][AppNext]_vars

(***************************************************************************)
(* Failing calls: each operation that calls the remote, one call at a time,*)
(* answered by an error                                                    *)
(***************************************************************************)
FailingThunks ==
    {"auth/register", "auth/login", "auth/refresh", "contacts/fetchAll",
     "contacts/addContact", "contacts/updateContact", "contacts/deleteContact"}

\* Every error an api call can end with.
AllErrors == Errors \cup {HttpError(404, Empty), HttpError(500, "Internal error")}

\* dispatch(thunk(...)) while no other call is pending
Call(thunk) ==
    /\ net = <<>> /\ queued = <<>>
    /\ Send(thunk, Null)
    /\ UNCHANGED <<phase, localStorage, remote, queued, requests>>

\* The call fails.
Fail == \E resp \in AllErrors : net # <<>> /\ Receive(1, resp)

FailingNext ==
    \/ \E thunk \in FailingThunks : Call(thunk)
    \/ Fail
    \/ Dispatch

FailingSpec == ContactsInit /\ [][FailingNext]_vars

(***************************************************************************)
(* The wire format of the authenticated contacts API: a contact is         *)
(* {id, name, number}, and POST / PATCH bodies are validated               *)
(***************************************************************************)
AnnOnWire == [id |-> 1, name |-> <<"A", "n", "n">>, number |-> <<"5">>]

\* The service's state and its answer after it has carried out request r.
ServeOnWire(r) ==
    CASE r.thunk = "contacts/fetchAll" ->
             [remote |-> remote, resp |-> Ok(200, remote.items)]
      [] r.thunk = "contacts/addContact" ->
             IF "number" \in DOMAIN r.arg /\ r.arg.number # <<>> /\ r.arg.name # <<>>
             THEN LET created == [id |-> remote.nextId, name |-> r.arg.name,
                                  number |-> r.arg.number]
                  IN  [remote |-> [items |-> Append(remote.items, created),
                                   nextId |-> remote.nextId + 1],
                       resp |-> Ok(201, created)]
             ELSE [remote |-> remote, resp |-> HttpError(400, "Bad request")]
      [] r.thunk = "contacts/updateContact" ->
             IF ~HasId(remote.items, r.arg.id)
             THEN [remote |-> remote, resp |-> HttpError(404, Empty)]
             ELSE IF "number" \in DOMAIN r.arg.updates
             THEN LET updated == [id |-> r.arg.id, name |-> r.arg.updates.name,
                                  number |-> r.arg.updates.number]
                      i == findIndex(remote.items, r.arg.id)
                  IN  [remote |-> [remote EXCEPT !.items[i] = updated], resp |-> Ok(200, updated)]
             ELSE [remote |-> remote, resp |-> HttpError(400, "Bad request")]
      [] r.thunk = "contacts/deleteContact" ->
             IF HasId(remote.items, r.arg)
             THEN [remote |-> [remote EXCEPT !.items = SelectSeq(@, LAMBDA c : c.id # r.arg)],
                   resp |-> Ok(204, Null)]
             ELSE [remote |-> remote, resp |-> HttpError(404, Empty)]

HandleOnWire ==
    \E i \in 1..Len(net) :
        /\ queued = <<>>
        /\ net[i].thunk \in ContactsThunks
        /\ ~net[i].handled
        /\ remote' = ServeOnWire(net[i]).remote
        /\ net' = [net EXCEPT ![i].handled = TRUE, ![i].resp = ServeOnWire(net[i]).resp]
        /\ UNCHANGED <<phase, auth, contacts, ui, filters, localStorage, queued, last, requests>>

\* contact.field || '' for a text field
fieldOrEmpty(contact, field) == IF field \in DOMAIN contact THEN contact[field] ELSE <<>>

\* EditModalContent.handleSubmit: the form is filled from the contact being edited,
\* its phone from number or phone, and the name is retyped.
EditModalContentSubmit(name) ==
    /\ phase = "mounted" /\ queued = <<>>
    /\ ui.editingContact # <<>>
    /\ LET editingContact == ui.editingContact[1]
           phone == IF truthy(editingContact, "number") THEN editingContact.number
                    ELSE fieldOrEmpty(editingContact, "phone")
           payload == [name |-> trim(name), number |-> trim(phone),
                       email |-> trim(fieldOrEmpty(editingContact, "email"))]
       IN  IF payload.name = <<>> \/ payload.number = <<>>
           THEN UNCHANGED <<auth, contacts, ui, filters, net, last, requests>>
           ELSE SendContacts("contacts/updateContact", [id |-> editingContact.id, updates |-> payload])
    /\ UNCHANGED <<phase, localStorage, remote, queued>>

WireInit ==
    /\ phase = "running"
    /\ auth = [user |-> "Ali", token |-> "t1", isLoggedIn |-> TRUE, isRefreshing |-> FALSE,
               status |-> "succeeded", error |-> Null]
    /\ contacts = contactsInitialState
    /\ ui = uiInitialState
    /\ filters = filtersInitialState
    /\ localStorage = "t1"
    /\ remote \in {[items |-> <<>>, nextId |-> 1], [items |-> <<AnnOnWire>>, nextId |-> 2]}
    /\ net = <<>>
    /\ queued = <<>>
    /\ last = Event(Action("@@INIT", Null, Null), NoResp, Null)
    /\ requests = 0

WireNext ==
    \/ AppEffect
    \/ \E name \in RawNames, phone \in RawPhones : ContactFormSubmit(name, phone)
    \/ \E i \in 1..Len(contacts.items) : ClickEdit(i)
    \/ \E name \in RawEdits : EditModalContentSubmit(name)
    \/ EditModalClose
    \/ HandleOnWire
    \/ Deliver
    \/ Dispatch

WireSpec == WireInit /\ [][WireNext]_vars

(***************************************************************************)
(* The filtered view: the search bar and the filter bar over a loaded list *)
(***************************************************************************)
\* The longest list the view is computed over.
MaxListed == 2

Anna == [id |-> 3, name |-> <<"A", "n", "n", "a">>, phone |-> <<>>,
         email |-> <<"a", "@", "x">>, avatar |-> <<>>]

\* A contact as the service returns it when it was stored without an email.
Bob == [id |-> 4, name |-> <<"B", "o", "b">>, phone |-> <<"5">>, avatar |-> <<>>]

Listed ==
    {items \in UNION {[1..n -> {Ann, Anna, Bob}] : n \in 0..MaxListed} :
        \A i, j \in 1..Len(items) : i # j => items[i] # items[j]}

\* What the user can have typed into the search bar.
RawSearches ==
    {<<" ">>, <<"a", "n", "n">>, <<" ", "A", "N", "N">>, <<"n", "5">>, <<"n", " ", "5">>,
     <<"@">>, <<"b", " ">>}

\* The options of the filter bar.
FilterValues == {"all", "hasEmail", "hasPhone"}

FilterInit ==
    /\ phase = "mounted"
    /\ auth = [user |-> "Ali", token |-> "t1", isLoggedIn |-> TRUE, isRefreshing |-> FALSE,
               status |-> "succeeded", error |-> Null]
    /\ contacts \in {[items |-> items, status |-> "succeeded", error |-> Null] : items \in Listed}
    /\ ui = uiInitialState
    /\ filters = filtersInitialState
    /\ localStorage = "t1"
    /\ remote = [items |-> contacts.items, nextId |-> 5]
    /\ net = <<>>
    /\ queued = <<>>
    /\ last = Event(Action("@@INIT", Null, Null), NoResp, Null)
    /\ requests = 0

\* SearchBar's onChange
SearchBarChange(value) ==
    /\ Reduce(Event(Action("filters/setSearch", value, Null), NoResp, localStorage))
    /\ UNCHANGED <<phase, localStorage, remote, net, queued, requests>>

\* FilterBar's onChange
FilterBarChange(value) ==
    /\ Reduce(Event(Action("filters/setFilter", value, Null), NoResp, localStorage))
    /\ UNCHANGED <<phase, localStorage, remote, net, queued, requests>>

FilterNext ==
    \/ \E value \in RawSearches : SearchBarChange(value)
    \/ \E value \in FilterValues : FilterBarChange(value)

FilterSpec == FilterInit /\ [][FilterNext]_vars

(***************************************************************************)
(* Session claims                                                          *)
(***************************************************************************)
\* The store is between tasks: the state is the one the last action left.
Quiet == queued = <<>>

Anonymous(state) == state.user = Null /\ state.token = Null /\ ~state.isLoggedIn

LogoutTypes == {"auth/logout/fulfilled", "auth/logout/rejected"}

\* C1: a logout always completes as fulfilled, whether or not the remote call
\* succeeded; right after it settles the persisted credential is absent and the
\* session is anonymous with status idle and error null.
C1_LogoutAlwaysClears ==
    /\ queued # <<>> /\ queued[1].action.type \in LogoutTypes
          => queued[1].action.type = "auth/logout/fulfilled" /\ localStorage = Null
    /\ Quiet /\ last.action.type \in LogoutTypes
          => /\ last.action.type = "auth/logout/fulfilled"
             /\ Anonymous(auth)
             /\ auth.status = "idle"
             /\ auth.error = Null
             /\ localStorage = Null

\* A logout whose remote call failed has settled.
C1_Witness ==
    Quiet /\ last.action.type = "auth/logout/fulfilled" /\ ~last.resp.ok /\ last.resp.status = 0

SignInFulfilled == {"auth/login/fulfilled", "auth/register/fulfilled"}

\* C2: when login or register fulfils with {user, token}, the credential is persisted
\* before the fulfilled action is applied, and afterwards the session is logged in
\* with the returned token and profile, status succeeded, error null.
C2_SignInPersistsThenAuthenticates ==
    /\ queued # <<>> /\ queued[1].action.type \in SignInFulfilled
          => localStorage = queued[1].resp.data.token
    /\ Quiet /\ last.action.type \in SignInFulfilled
          => /\ auth.isLoggedIn
             /\ auth.token = last.resp.data.token
             /\ auth.user = last.resp.data.user
             /\ auth.status = "succeeded"
             /\ auth.error = Null
             /\ localStorage = last.resp.data.token

C2_Witness ==
    /\ Quiet /\ last.action.type = "auth/login/fulfilled"
    /\ last.resp.data = [user |-> "Ali", token |-> "t2"]
    /\ last.storageBefore # "t2"

\* C3: whenever no session operation is in flight, isLoggedIn holds exactly when
\* both the token and the profile are present.
C3_LoggedInIffTokenAndUser ==
    net = <<>> /\ queued = <<>>
        => (auth.isLoggedIn <=> (auth.token # Null /\ auth.user # Null))

C5_UnverifiedOnlyWhileRefreshing ==
    /\ Quiet /\ last.action.type = "auth/refresh/pending"
          => auth.isLoggedIn /\ auth.token = last.storageBefore /\ auth.token # Null
    /\ auth.isLoggedIn /\ auth.user = Null => auth.isRefreshing

C5_Witness ==
    /\ auth.isLoggedIn /\ auth.user = Null /\ auth.isRefreshing
    /\ \E i \in 1..Len(net) : net[i].thunk = "auth/refresh"

\* C6: a register rejected with 400 or 409 leaves the session anonymous with status
\* failed and error "<status>:<server message>"; other failures store the message
\* unprefixed; a 400/409 rejection writes nothing to the persisted credential.
C6_RegisterRejected ==
    Quiet /\ last.action.type = "auth/register/rejected"
        => /\ Anonymous(auth)
           /\ auth.status = "failed"
           /\ last.resp.status = 409 => auth.error = "409:User already exists"
           /\ last.resp.status = 400 => auth.error = "400:Bad request"
           /\ last.resp.status \in {400, 409} => localStorage = last.storageBefore
           /\ last.resp.status \notin {400, 409} => auth.error = last.resp.message

C6_Witness ==
    Quiet /\ last.action.type = "auth/register/rejected" /\ last.resp.status = 409

\* C19: when several logout requests are in flight at once, every order in which
\* they settle ends in the same state: each logout that settles, first or last, leaves
\* user, token null, isLoggedIn false, status idle, error null and no persisted
\* credential, whatever happened since it was sent.
C19_ConcurrentLogoutsConverge ==
    [][ queued # <<>> /\ Head(queued).action.type \in LogoutTypes
            => /\ auth' = [initialState EXCEPT !.isRefreshing = auth.isRefreshing]
               /\ localStorage' = Null ]_vars

\* Of several logouts in flight at once one has settled and another is still in flight.
C19_Witness ==
    /\ Quiet /\ last.action.type = "auth/logout/fulfilled"
    /\ Anonymous(auth) /\ auth.status = "idle"
    /\ \E i \in 1..Len(net) : net[i].thunk = "auth/logout"

\* C24: clearCredentials returns the session slice to its initial state (user,
\* token null, isLoggedIn, isRefreshing false, status idle, error null) from any
\* state in which it is dispatched.
C24_ClearCredentialsResets ==
    last.action.type = "auth/clearCredentials" => auth = initialState

\* C25: once a logout has settled, isLoggedIn stays false until a later login or
\* register fulfils or setCredentials is dispatched with a token (as main.jsx does at
\* page load); the late response of a startup refresh cannot turn it back on.
C25_LoggedOutUntilSignIn ==
    [][ ~auth.isLoggedIn /\ auth'.isLoggedIn
            => \/ phase = "boot"
               \/ queued # <<>> /\ Head(queued).action.type
                                     \in SignInFulfilled \cup {"auth/setCredentials"} ]_vars

\* C26: whenever no request is in flight, the session token and the persisted
\* credential agree: the session holds a token exactly when the same token is in
\* localStorage, also after a contacts request was answered with 401.
C26_TokenAgreesWithStorage ==
    net = <<>> /\ queued = <<>> => auth.token = localStorage

\* C30: every startup refresh eventually settles: once isRefreshing is true it
\* eventually becomes false again, whatever other session operations are dispatched
\* meanwhile, given that every request is eventually answered.
C30_RefreshSettles == auth.isRefreshing ~> ~auth.isRefreshing

\* The refresh is in flight and a logout has been dispatched meanwhile.
C30_Witness ==
    /\ auth.isRefreshing
    /\ \E i \in 1..Len(net) : net[i].thunk = "auth/refresh"
    /\ \E i \in 1..Len(net) : net[i].thunk = "auth/logout"

(***************************************************************************)
(* Contacts claims                                                         *)
(***************************************************************************)
\* C7: no two elements of the collection have the same id, under any interleaving
\* of the requests and any arrival order of their responses.
C7_UniqueIds ==
    \A i, j \in 1..Len(contacts.items) :
        i # j => contacts.items[i].id # contacts.items[j].id

\* C8: when fetchAll fulfils the collection is exactly the service's response,
\* whatever it held before (replace, never merge).
C8_FetchReplaces ==
    last.action.type = "contacts/fetchAll/fulfilled"
        => contacts.items = last.resp.data /\ contacts.status = "succeeded"

\* The fetch and one add were sent, the add was carried out and settled first, and
\* the fetch response that then settled does not hold the added contact.
C8_Witness ==
    /\ last.action.type = "contacts/fetchAll/fulfilled"
    /\ queued = <<>> /\ net = <<>> /\ requests = 2
    /\ Len(remote.items) = Len(contacts.items) + 1

\* C9: when add fulfils, the returned contact becomes the first element and the
\* previous elements follow in their previous order.
C9_AddPrepends ==
    [][ queued # <<>> /\ Head(queued).action.type = "contacts/addContact/fulfilled"
            => contacts'.items = <<Head(queued).resp.data>> \o contacts.items ]_vars

Bo2 == [id |-> 2, name |-> <<"B", "o">>, phone |-> <<"2">>, email |-> <<>>, avatar |-> <<>>]

\* fetchAll returned [Ann(1)], then the add of Bo returned id 2: [Bo(2), Ann(1)].
C9_Witness ==
    /\ last.action.type = "contacts/addContact/fulfilled"
    /\ contacts.items = <<Bo2, Ann>>

\* A text that is empty after trimming: nothing but spaces.
Blank(s) == \A i \in 1..Len(s) : s[i] = " "

\* C10: submitting an add whose name or phone is empty after trimming sends no
\* request, dispatches no action and leaves collection, status and error unchanged.
C10_BlankSubmitDoesNothing ==
    [][ \A name \in RawNames, phone \in RawPhones :
            (Blank(name) \/ Blank(phone)) /\ ContactFormSubmit(name, phone)
                => UNCHANGED <<contacts, net, queued, last, requests>> ]_vars

\* The form is mounted over a fetched list and a valid submit would still be sent.
C10_Witness ==
    /\ phase = "mounted" /\ queued = <<>> /\ requests < MaxRequests
    /\ contacts.status = "succeeded" /\ contacts.items # <<>>

\* C11: when update(id, fields) fulfils and an element with that id is in the
\* collection, that element is replaced in place by the returned object and every
\* other element, the order and the length are unchanged; when no element has that
\* id the collection is unchanged.
C11_UpdateInPlace ==
    [][ queued # <<>> /\ Head(queued).action.type = "contacts/updateContact/fulfilled"
            => LET id == Head(queued).action.meta.arg.id
                   returned == Head(queued).resp.data
               IN  IF HasId(contacts.items, id)
                   THEN /\ Len(contacts'.items) = Len(contacts.items)
                        /\ \E i \in 1..Len(contacts.items) :
                              /\ contacts.items[i].id = id
                              /\ contacts'.items[i] = returned
                              /\ \A j \in 1..Len(contacts.items) :
                                    j # i => contacts'.items[j] = contacts.items[j]
                   ELSE contacts'.items = contacts.items ]_vars

\* Ann, second of [Bo(2), Ann(1)], was renamed Cy and is still second.
C11_Witness ==
    /\ last.action.type = "contacts/updateContact/fulfilled"
    /\ contacts.items = <<Bo2, [Ann EXCEPT !.name = <<"C", "y">>]>>

\* C12: in the state produced by a fulfilled remove(id) no element with that id
\* remains, and all other elements remain in their previous relative order.
C12_RemoveDeletes ==
    [][ queued # <<>> /\ Head(queued).action.type = "contacts/deleteContact/fulfilled"
            => LET id == Head(queued).action.meta.arg
               IN  /\ ~HasId(contacts'.items, id)
                   /\ contacts'.items = SelectSeq(contacts.items, LAMBDA c : c.id # id) ]_vars

\* Bo, first of [Bo(2), Ann(1)], was removed: [Ann(1)] is left.
C12_Witness ==
    /\ last.action.type = "contacts/deleteContact/fulfilled"
    /\ last.action.payload = 2
    /\ contacts.items = <<Ann>>

ContactsPending == {thunk \o "/pending" : thunk \in ContactsThunks}
ContactsFulfilled == {thunk \o "/fulfilled" : thunk \in ContactsThunks}
ContactsRejected == {thunk \o "/rejected" : thunk \in ContactsThunks}

\* C16: for each of fetchAll, add, update and remove, the pending transition sets
\* status loading and error null, the fulfilled transition sets status succeeded, the
\* rejected transition sets status failed and error to the rejection message.
C16_StatusTransitions ==
    /\ last.action.type \in ContactsPending
          => contacts.status = "loading" /\ contacts.error = Null
    /\ last.action.type \in ContactsFulfilled
          => contacts.status = "succeeded"
    /\ last.action.type \in ContactsRejected
          => /\ contacts.status = "failed"
             /\ contacts.error = last.resp.message
             /\ contacts.error # Null /\ contacts.error # Empty

\* An update was refused because the contact was already gone from the service.
C16_Witness ==
    /\ last.action.type = "contacts/updateContact/rejected"
    /\ contacts.error = "Request failed with status code 404"

\* The request issued last is still in flight.
LatestInFlight(requested, inFlight) ==
    \E i \in 1..Len(inFlight) :
        inFlight[i].thunk \in ContactsThunks /\ inFlight[i].requestId = requested

\* The action about to be dispatched settles a contacts request.
Settling ==
    queued # <<>> /\ Head(queued).action.type \in ContactsFulfilled \cup ContactsRejected

\* C17 as stated: status and error mirror the most recently issued attempt: while it
\* is in flight status is loading, and an earlier attempt that settles changes
\* neither status nor error.
C17_Stated_MirrorsLatestIssued ==
    [][ /\ LatestInFlight(requests', net') => contacts'.status = "loading"
        /\ Settling /\ Head(queued).action.meta.requestId # requests
              => contacts'.status = contacts.status /\ contacts'.error = contacts.error ]_vars

\* C17 amended: status and error mirror the most recent transition of any attempt:
\* issuing an attempt sets loading and no error, every attempt that settles, the
\* latest or an earlier one, sets its own outcome, and nothing else changes them.
C17_MirrorsLastTransition ==
    [][ /\ Len(net') = Len(net) + 1
              => contacts'.status = "loading" /\ contacts'.error = Null
        /\ Settling /\ Head(queued).action.type \in ContactsFulfilled
              => contacts'.status = "succeeded" /\ contacts'.error = contacts.error
        /\ Settling /\ Head(queued).action.type \in ContactsRejected
              => contacts'.status = "failed" /\ contacts'.error = Head(queued).action.payload
        /\ ~Settling /\ Len(net') # Len(net) + 1
              => contacts'.status = contacts.status /\ contacts'.error = contacts.error ]_vars

\* Every attempt has settled, and the one that settled last, a failure, was not the
\* one issued last.
C17_Witness ==
    /\ queued = <<>> /\ net = <<>>
    /\ last.action.type \in ContactsRejected
    /\ last.action.meta.requestId < requests
    /\ contacts.status = "failed"

\* C18: the pending and rejected transitions of every contacts operation leave the
\* collection unchanged; the collection changes only in a fulfilled transition.
C18_OnlyFulfilledChangesItems ==
    [][ /\ contacts'.items # contacts.items
              => queued # <<>> /\ Head(queued).action.type \in ContactsFulfilled
        /\ Len(net') = Len(net) + 1 => contacts'.items = contacts.items
        /\ queued # <<>> /\ Head(queued).action.type \in ContactsRejected
              => contacts'.items = contacts.items ]_vars

\* An add failed over a loaded list, which is still there.
C18_Witness ==
    /\ last.action.type = "contacts/addContact/rejected"
    /\ contacts.items = <<Ann>>

\* C21: after a logout settles the contacts collection is empty, so no contact of
\* the previous session is in the store when another user logs in.
C21_LogoutClearsContacts ==
    Quiet /\ last.action.type \in LogoutTypes \cup SignInFulfilled => contacts.items = <<>>

\* The rejected action about to be dispatched, for a call that failed.
Rejecting == queued # <<>> /\ ~Head(queued).resp.ok

\* lastError of the store that owns the action.
ErrorOfOwner(type, session, list) ==
    IF type \in ContactsRejected THEN list.error ELSE session.error

AnyRejected == ContactsRejected \cup {"auth/register/rejected", "auth/login/rejected",
                                      "auth/refresh/rejected"}

\* C22 as stated: every failure of a remote call in register, login, refresh,
\* fetchAll, add, update or remove ends in a rejected transition whose payload is a
\* message string, and that payload is what the owning store's error then holds.
C22_Stated_PayloadStored ==
    [][ Rejecting
            => LET action == Head(queued).action
               IN  /\ action.type \in AnyRejected
                   /\ action.payload \notin {Null, Empty}
                   /\ ErrorOfOwner(action.type, auth', contacts') = action.payload ]_vars

\* C22 amended: the same, except that a failed refresh stores the fixed message
\* 'Session expired' instead of its payload.
C22_FailuresBecomeMessages ==
    [][ Rejecting
            => LET action == Head(queued).action
               IN  /\ action.type \in AnyRejected
                   /\ action.payload \notin {Null, Empty}
                   /\ ErrorOfOwner(action.type, auth', contacts')
                         = IF action.type = "auth/refresh/rejected" THEN "Session expired"
                           ELSE action.payload ]_vars

\* A login failed with a status and no message in the body: the adapter's message
\* is what the session store holds.
C22_Witness ==
    /\ last.action.type = "auth/login/rejected"
    /\ last.resp.status = 500 /\ last.resp.dataMessage = Empty
    /\ auth.error = "Request failed with status code 500"

\* C23: every contact placed in the collection by fetchAll, add or update carries its
\* phone under `phone`, and every add or update request body carries it under `number`.
C23_NumberOnWirePhoneInStore ==
    /\ \A i \in 1..Len(contacts.items) : "phone" \in DOMAIN contacts.items[i]
    /\ \A i \in 1..Len(net) :
          /\ net[i].thunk = "contacts/addContact" => "number" \in DOMAIN net[i].arg
          /\ net[i].thunk = "contacts/updateContact" => "number" \in DOMAIN net[i].arg.updates

\* C27: in every reachable state of the contacts store error is non-null only when
\* status is failed, under any interleaving of the requests in flight.
C27_ErrorOnlyWhenFailed ==
    contacts.error # Null => contacts.status = "failed"

\* C28: whenever the edit modal holds a contact, a contact with that id is in the
\* collection, also when a remove or a fetchAll response without that contact settles
\* after the modal was opened.
C28_EditedContactIsListed ==
    ui.editingContact # <<>> => HasId(contacts.items, ui.editingContact[1].id)

UpdateSettled == {"contacts/updateContact/fulfilled", "contacts/updateContact/rejected"}

\* C29: the clearEditingContact that the edit modal dispatches after its update has
\* settled closes only the modal of the contact that was being updated: a modal that
\* was meanwhile opened for another contact stays open.
C29_ClearClosesOwnModalOnly ==
    [][ ( /\ queued # <<>> /\ Head(queued).action.type = "ui/clearEditingContact"
          /\ last.action.type \in UpdateSettled
          /\ ui.editingContact # <<>>
          /\ ui.editingContact[1].id # last.action.meta.arg.id )
            => ui'.editingContact = ui.editingContact ]_vars

C15_UnauthorizedClearsStorage ==
    [][ queued = <<>> /\ queued' # <<>> /\ ~Head(queued').resp.ok
            => LET settled == Head(queued')
               IN  /\ auth' = auth
                   /\ settled.action.payload = settled.resp.message
                   /\ \E thunk \in ContactsThunks : settled.action.type = thunk \o "/rejected"
                   /\ IF settled.resp.status = 401
                      THEN localStorage' = Null
                      ELSE localStorage' = localStorage ]_vars

\* A 401 has just been received while a credential was persisted.
C15_Witness ==
    /\ queued # <<>> /\ Head(queued).resp.status = 401
    /\ Head(queued).storageBefore = "t1" /\ localStorage = Null /\ auth.token = "t1"

(***************************************************************************)
(* Routing claims                                                          *)
(***************************************************************************)
\* The rejection of a request that failed with 401 has been applied, and no other
\* request is in flight whose outcome could still change the session.
Expired ==
    /\ Quiet /\ net = <<>>
    /\ last.action.type \in ContactsRejected \cup {"auth/refresh/rejected"}
    /\ last.resp.status = 401

\* C20: whenever a request fails with 401, on refresh or on any contacts request, a
\* user on a protected route ends up redirected to the login route: once the failure
\* is in the store and nothing else is pending, PrivateRoute renders the redirect.
C20_ExpiryRedirects == Expired => PrivateRoute(auth) = "Navigate to /login"

(***************************************************************************)
(* Filtered-view claims                                                    *)
(***************************************************************************)
\* t occurs in s as a run of consecutive characters.
IsSubstring(t, s) == \E i, j \in 0..Len(s) : i <= j /\ SubSeq(s, i + 1, j) = t

EmailOrEmpty(c) == IF "email" \in DOMAIN c THEN c.email ELSE <<>>

CategoryOk(c) ==
    \/ filters.filter = "all"
    \/ filters.filter = "hasEmail" /\ EmailOrEmpty(c) # <<>>
    \/ filters.filter = "hasPhone" /\ c.phone # <<>>

Needle == toLowerCase(trim(filters.search))

=============================================================================
